---- MODULE Spec2Model ----
(***************************************************************************)
(* BasicModel, the SSD backbone of ssd/modeling/backbones/basic.py.        *)
(*                                                                         *)
(* A tensor is modelled by its shape <<N, C, H, W>>: every statement of    *)
(* the constructor and of forward depends on tensors through their shapes  *)
(* only.  A convolution or pooling that torch rejects (wrong number of     *)
(* input channels, kernel larger than the padded input) yields Err, which  *)
(* forward propagates as a RuntimeError.                                   *)
(*                                                                         *)
(* The code indexes from 0; `idx` keeps the code's value and the           *)
(* sequences of the model, which start at 1, are read at idx + 1.          *)
(***************************************************************************)
EXTENDS Integers, Sequences, FiniteSets, TLC

VARIABLES
    args,                  \* the arguments handed to __init__
    pc,                    \* "new", "ctor_failed", "idle", "layers", "checks"
    out_channels,          \* self.out_channels
    output_feature_shape,  \* self.output_feature_shape
    layers,                \* self.layers
    x,                     \* forward's argument
    li,                    \* position of `for layer in self.layers` (0-based)
    activation,            \* forward's local
    out_features,          \* forward's local
    idx,                   \* position of `for idx, feature in enumerate(...)`
    result,                \* how the current / latest call of forward ended
    last                   \* the call before it: its input and how it ended

vars == <<args, pc, out_channels, output_feature_shape, layers, x, li,
          activation, out_features, idx, result, last>>

config == <<out_channels, output_feature_shape, layers>>

(***************************************************************************)
(* Bounds of the model.                                                    *)
(***************************************************************************)
MaxBatch == 2     \* batch sizes 1..MaxBatch
MaxWrong == 2     \* configured feature sizes that differ from the documented ones
MaxExtra == 1     \* configuration lists hold NumStages -/+ MaxExtra entries

(***************************************************************************)
(* Constants of the constructor.                                           *)
(***************************************************************************)
CONV_PADDING         == 1
CONV_KERNEL_SIZE     == 3
MAX_POOL_KERNEL_SIZE == 2
MAX_POOL_STRIDE      == 2
NumStages            == 6

(***************************************************************************)
(* torch.nn modules, by their effect on a shape.                           *)
(***************************************************************************)
Err == <<>>

Conv2d(in_channels, out_ch, kernel_size, padding, stride) ==
    [op |-> "conv", in |-> in_channels, out |-> out_ch,
     k |-> kernel_size, p |-> padding, s |-> stride]

ReLU == [op |-> "relu", in |-> 0, out |-> 0, k |-> 0, p |-> 0, s |-> 0]

MaxPool2d(kernel_size, stride) ==
    [op |-> "pool", in |-> 0, out |-> 0, k |-> kernel_size, p |-> 0, s |-> stride]

\* the output size with the padding forgotten
OutSizeNoPadding(size, k, p, s) == ((size - k) \div s) + 1

\* floor((size + 2 * padding - kernel) / stride) + 1
OutSize(size, k, p, s) == ((size + 2 * p - k) \div s) + 1

ApplyModule(m, shape) ==
    IF shape = Err THEN Err
    ELSE IF m.op = "relu" THEN shape
    ELSE IF m.op = "conv" THEN
        IF \/ shape[2] # m.in
           \/ shape[3] + 2 * m.p < m.k
           \/ shape[4] + 2 * m.p < m.k
        THEN Err
        ELSE <<shape[1], m.out,
               OutSize(shape[3], m.k, m.p, m.s), OutSize(shape[4], m.k, m.p, m.s)>>
    ELSE
        IF shape[3] < m.k \/ shape[4] < m.k
        THEN Err
        ELSE <<shape[1], shape[2],
               OutSize(shape[3], m.k, 0, m.s), OutSize(shape[4], m.k, 0, m.s)>>

RECURSIVE Sequential(_, _)
Sequential(modules, shape) ==
    IF modules = <<>> THEN shape
    ELSE Sequential(Tail(modules), ApplyModule(Head(modules), shape))

(***************************************************************************)
(* The six stages, as __init__ builds them.  output_channels[k] of the     *)
(* code is output_channels[k + 1] here.                                    *)
(***************************************************************************)
layer_1(output_channels, image_channels) ==
    << Conv2d(image_channels, 32, CONV_KERNEL_SIZE, CONV_PADDING, 1),
       ReLU,
       MaxPool2d(MAX_POOL_KERNEL_SIZE, MAX_POOL_STRIDE),
       Conv2d(32, 64, CONV_KERNEL_SIZE, CONV_PADDING, 1),
       ReLU,
       MaxPool2d(MAX_POOL_KERNEL_SIZE, MAX_POOL_STRIDE),
       Conv2d(64, 64, CONV_KERNEL_SIZE, CONV_PADDING, 1),
       ReLU,
       Conv2d(64, output_channels[1], CONV_KERNEL_SIZE, CONV_PADDING, 2),
       ReLU >>

layer_2(output_channels) ==
    << Conv2d(output_channels[1], 128, CONV_KERNEL_SIZE, CONV_PADDING, 1),
       ReLU,
       Conv2d(128, output_channels[2], CONV_KERNEL_SIZE, CONV_PADDING, 2),
       ReLU >>

layer_3(output_channels) ==
    << Conv2d(output_channels[2], 256, CONV_KERNEL_SIZE, CONV_PADDING, 1),
       ReLU,
       Conv2d(256, output_channels[3], CONV_KERNEL_SIZE, CONV_PADDING, 2),
       ReLU >>

layer_4(output_channels) ==
    << Conv2d(output_channels[3], 128, CONV_KERNEL_SIZE, CONV_PADDING, 1),
       ReLU,
       Conv2d(128, output_channels[4], CONV_KERNEL_SIZE, CONV_PADDING, 2),
       ReLU >>

layer_5(output_channels) ==
    << Conv2d(output_channels[4], 128, CONV_KERNEL_SIZE, CONV_PADDING, 1),
       ReLU,
       Conv2d(128, output_channels[5], CONV_KERNEL_SIZE, CONV_PADDING, 2),
       ReLU >>

\* the last stage built with output_channels[-1] instead of output_channels[5]
layer_6_last(output_channels) ==
    << Conv2d(output_channels[5], 128, CONV_KERNEL_SIZE, CONV_PADDING, 1),
       ReLU,
       Conv2d(128, output_channels[Len(output_channels)], CONV_KERNEL_SIZE, 0, 1),
       ReLU >>

layer_6(output_channels) ==
    << Conv2d(output_channels[5], 128, CONV_KERNEL_SIZE, CONV_PADDING, 1),
       ReLU,
       Conv2d(128, output_channels[6], CONV_KERNEL_SIZE, 0, 1),
       ReLU >>

\* self.layers with layer_1 and layer_2 listed in the wrong order
LayersSwapped(output_channels, image_channels) ==
    << layer_2(output_channels),
       layer_1(output_channels, image_channels),
       layer_3(output_channels),
       layer_4(output_channels),
       layer_5(output_channels),
       layer_6(output_channels) >>

\* self.layers
Layers(output_channels, image_channels) ==
    << layer_1(output_channels, image_channels),
       layer_2(output_channels),
       layer_3(output_channels),
       layer_4(output_channels),
       layer_5(output_channels),
       layer_6(output_channels) >>

\* output_channels[0] .. output_channels[5] are read while the stages are
\* built; a list without one of them raises IndexError.
CtorIndexError(output_channels) == Len(output_channels) < NumStages

(***************************************************************************)
(* How a call ends.                                                        *)
(***************************************************************************)
NoResult == [kind |-> "none", check |-> "", idx |-> -1,
             expected |-> <<>>, got |-> <<>>, value |-> <<>>]

Returned(value) == [NoResult EXCEPT !.kind = "returned", !.value = value]

Raised(kind) == [NoResult EXCEPT !.kind = kind]

\* "Expected shape: {expected_shape}, got: {feature.shape[1:]} at output IDX: {idx}"
ShapeAssertion(expected, got, i) ==
    [NoResult EXCEPT !.kind = "AssertionError", !.check = "shape",
                     !.idx = i, !.expected = expected, !.got = got]

\* "Expected that the length of the outputted features to be: {..}, but it was: {..}"
LengthAssertion(expected, got) ==
    [NoResult EXCEPT !.kind = "AssertionError", !.check = "length",
                     !.expected = <<expected>>, !.got = <<got>>]

NoCall == [x |-> <<>>, result |-> NoResult]

(***************************************************************************)
(* The inputs.                                                             *)
(***************************************************************************)
\* the feature sizes the docstrings give
DocumentedSizes == << <<38, 38>>, <<19, 19>>, <<10, 10>>, <<5, 5>>, <<3, 3>>, <<1, 1>> >>

BaseSize(i) == IF i <= NumStages THEN DocumentedSizes[i] ELSE <<1, 1>>

ListLengths == (NumStages - MaxExtra) .. (NumStages + MaxExtra)

\* a list of len entries; those at the positions in wrong are off by one in height
FeatureSizes(wrong, len) ==
    [i \in 1..len |-> IF i \in wrong
                      THEN <<BaseSize(i)[1] + 1, BaseSize(i)[2]>>
                      ELSE BaseSize(i)]

FeatureSizeLists ==
    { FeatureSizes(wrong, len) :
        wrong \in { s \in SUBSET (1..NumStages) : Cardinality(s) <= MaxWrong },
        len \in ListLengths }

ChannelBases ==
    { [i \in 1..(NumStages + MaxExtra) |->
          IF i <= 8 THEN <<128, 256, 128, 128, 64, 64, 32, 16>>[i] ELSE 16],
      [i \in 1..(NumStages + MaxExtra) |-> 16 * i] }

ChannelLists ==
    { SubSeq(b, 1, len) : b \in ChannelBases, len \in ListLengths }

ImageChannels == {3}

InputChannels == {1, 3}

InputSizes == { <<300, 300>>, <<308, 300>>, <<150, 150>> }

Inputs ==
    { <<n, c, hw[1], hw[2]>> : n \in 1..MaxBatch, c \in InputChannels, hw \in InputSizes }

(***************************************************************************)
(* The state before the constructor runs.                                  *)
(***************************************************************************)
Init ==
    /\ args \in [output_channels : ChannelLists,
                 image_channels : ImageChannels,
                 output_feature_sizes : FeatureSizeLists]
    /\ pc = "new"
    /\ out_channels = <<>>
    /\ output_feature_shape = <<>>
    /\ layers = <<>>
    /\ x = <<>>
    /\ li = 0
    /\ activation = <<>>
    /\ out_features = <<>>
    /\ idx = 0
    /\ result = NoResult
    /\ last = NoCall

(***************************************************************************)
(* BasicModel.__init__                                                     *)
(***************************************************************************)
Construct ==
    /\ pc = "new"
    /\ IF CtorIndexError(args.output_channels)
       THEN /\ pc' = "ctor_failed"
            /\ result' = Raised("IndexError")
            /\ UNCHANGED config
       ELSE /\ pc' = "idle"
            /\ out_channels' = args.output_channels
            /\ output_feature_shape' = args.output_feature_sizes
            /\ layers' = Layers(args.output_channels, args.image_channels)
            /\ UNCHANGED result
    /\ UNCHANGED <<args, x, li, activation, out_features, idx, last>>

(***************************************************************************)
(* BasicModel.forward                                                      *)
(***************************************************************************)
\* out_features = []; activation = x
Call ==
    /\ pc = "idle"
    /\ \E input \in Inputs : x' = input /\ activation' = input
    /\ out_features' = <<>>
    /\ li' = 0
    /\ idx' = 0
    /\ result' = NoResult
    /\ last' = IF result.kind = "none" THEN last ELSE [x |-> x, result |-> result]
    /\ pc' = "layers"
    /\ UNCHANGED <<args, config>>

\* the loop that consumes self.layers while it runs
ApplyLayerPopping ==
    /\ pc = "layers"
    /\ IF layers # <<>>
       THEN LET out == Sequential(Head(layers), activation) IN
            IF out = Err
            THEN /\ result' = Raised("RuntimeError")
                 /\ pc' = "idle"
                 /\ UNCHANGED <<activation, out_features, li, layers>>
            ELSE /\ activation' = out
                 /\ out_features' = Append(out_features, out)
                 /\ li' = li + 1
                 /\ layers' = Tail(layers)
                 /\ UNCHANGED <<pc, result>>
       ELSE /\ pc' = "checks"
            /\ UNCHANGED <<activation, out_features, li, result, layers>>
    /\ UNCHANGED <<args, out_channels, output_feature_shape, x, idx, last>>

\* for layer in self.layers: activation = layer(activation); out_features.append(activation)
ApplyLayer ==
    /\ pc = "layers"
    /\ IF li < Len(layers)
       THEN LET out == Sequential(layers[li + 1], activation) IN
            IF out = Err
            THEN /\ result' = Raised("RuntimeError")
                 /\ pc' = "idle"
                 /\ UNCHANGED <<activation, out_features, li>>
            ELSE /\ activation' = out
                 /\ out_features' = Append(out_features, out)
                 /\ li' = li + 1
                 /\ UNCHANGED <<pc, result>>
       ELSE /\ pc' = "checks"
            /\ UNCHANGED <<activation, out_features, li, result>>
    /\ UNCHANGED <<args, config, x, idx, last>>

\* feature.shape[:3]
ShapeWithBatch(feature) == SubSeq(feature, 1, 3)

\* feature.shape[1:]
ShapeTail(feature) == Tail(feature)

\* only the channels are compared
ChannelsMatch(feature, expected_shape) == ShapeTail(feature)[1] = expected_shape[1]

\* feature.shape[1:] == expected_shape
ShapeMatches(feature, expected_shape) == ShapeTail(feature) = expected_shape

\* expected_shape read at the index after idx
ExpectedShapeNext(i) ==
    LET j == IF i + 2 <= Len(output_feature_shape) /\ i + 2 <= Len(out_channels)
             THEN i + 2 ELSE i + 1
    IN <<out_channels[j], output_feature_shape[j][1], output_feature_shape[j][2]>>

\* out_channel = self.out_channels[idx]; h, w = self.output_feature_shape[idx]
ExpectedShape(i) ==
    <<out_channels[i + 1], output_feature_shape[i + 1][1], output_feature_shape[i + 1][2]>>

\* the body of `for idx, feature in enumerate(out_features)`
CheckShape ==
    /\ pc = "checks"
    /\ idx < Len(out_features)
    /\ IF idx >= Len(out_channels) \/ idx >= Len(output_feature_shape)
       THEN /\ result' = Raised("IndexError")
            /\ pc' = "idle"
            /\ UNCHANGED idx
       ELSE LET feature == out_features[idx + 1]
                expected_shape == ExpectedShape(idx)
            IN IF ShapeMatches(feature, expected_shape)
               THEN /\ idx' = idx + 1
                    /\ UNCHANGED <<pc, result>>
               ELSE /\ result' = ShapeAssertion(expected_shape, ShapeTail(feature), idx)
                    /\ pc' = "idle"
                    /\ UNCHANGED idx
    /\ UNCHANGED <<args, config, x, li, activation, out_features, last>>

\* the length assertion left out
LengthUnchecked(features, shapes) == TRUE

\* len(out_features) == len(self.output_feature_shape)
LengthMatches(features, shapes) == Len(features) = Len(shapes)

\* the length assertion and `return tuple(out_features)`
CheckLength ==
    /\ pc = "checks"
    /\ idx >= Len(out_features)
    /\ result' = IF LengthMatches(out_features, output_feature_shape)
                 THEN Returned(out_features)
                 ELSE LengthAssertion(Len(output_feature_shape), Len(out_features))
    /\ pc' = "idle"
    /\ UNCHANGED <<args, config, x, li, activation, out_features, idx, last>>

Next == Construct \/ Call \/ ApplyLayer \/ CheckShape \/ CheckLength

Spec == Init /\ [][Next]_vars

(***************************************************************************)
(* Notions the properties below share.                                     *)
(***************************************************************************)
\* a call of forward has ended, by a return or by an exception
Finished == pc = "idle" /\ result.kind # "none"

\* the call before the current one has ended too
TwoCalls == Finished /\ last.result.kind # "none"

\* what the configuration says stage i (1-based) must produce
Configured(i) ==
    <<out_channels[i], output_feature_shape[i][1], output_feature_shape[i][2]>>

\* stage i has produced a map and the configuration has an entry for it that differs
Mismatch(i) ==
    /\ i <= Len(out_features)
    /\ i <= Len(output_feature_shape)
    /\ Tail(out_features[i]) # Configured(i)

\* stage i, read off the constructor's arguments
StageOf(i) ==
    CASE i = 1 -> layer_1(args.output_channels, args.image_channels)
      [] i = 2 -> layer_2(args.output_channels)
      [] i = 3 -> layer_3(args.output_channels)
      [] i = 4 -> layer_4(args.output_channels)
      [] i = 5 -> layer_5(args.output_channels)
      [] OTHER -> layer_6(args.output_channels)

StandardInput ==
    /\ x # <<>>
    /\ x[2] = args.image_channels
    /\ x[3] = 300
    /\ x[4] = 300

C3_ReturnedLength ==
    result.kind = "returned"
    => /\ Len(result.value) = Len(output_feature_shape)
       /\ Len(result.value) = 6

C3_Witness ==
    /\ result.kind = "returned"
    /\ Len(result.value) = 6
    /\ Len(args.output_channels) > 6
    /\ ~StandardInput

(***************************************************************************)
(* C4 (as claimed): when six maps were produced, the configured list has a *)
(* length other than six and each of its entries for the six stages agrees *)
(* with the stage, forward ends with the length assertion.                 *)
(***************************************************************************)
C4_LengthAssertionOnly ==
    (Finished /\ Len(out_features) = NumStages
        /\ Len(output_feature_shape) # NumStages
        /\ ~ \E i \in 1..NumStages : Mismatch(i))
    => /\ result.kind = "AssertionError"
       /\ result.check = "length"

(***************************************************************************)
(* C5 (as claimed): the fifth map has output_channels[3] channels and the  *)
(* sixth has output_channels[4] (0-based, as the docstrings write them).   *)
(***************************************************************************)
C5_DocstringChannels ==
    Len(out_features) = NumStages
    => /\ out_features[5][2] = out_channels[4]
       /\ out_features[6][2] = out_channels[5]

(***************************************************************************)
(* C6: the stages run in the order layer_1 .. layer_6, each once, each on  *)
(* the output of the one before (layer_1 on x); a RuntimeError is the next *)
(* stage in that order rejecting its input; the assertions are reached     *)
(* only with all six maps; the i-th returned element is stage i's output.  *)
(***************************************************************************)
C6_StagesInOrder ==
    /\ Len(out_features) = li
    /\ li <= NumStages
    /\ \A i \in 1..Len(out_features) :
          out_features[i] =
              Sequential(StageOf(i), IF i = 1 THEN x ELSE out_features[i - 1])
    /\ out_features # <<>> => activation = out_features[Len(out_features)]
    /\ result.kind = "RuntimeError" =>
          /\ li < NumStages
          /\ Sequential(StageOf(li + 1), activation) = Err
    /\ (pc = "checks" \/ result.kind \in {"AssertionError", "returned"}) =>
          Len(out_features) = NumStages
    /\ result.kind = "returned" => result.value = out_features

C6_Witness ==
    /\ pc = "checks"
    /\ idx = 0
    /\ Len(out_features) = NumStages
    /\ out_features[2] = Sequential(layer_2(out_channels), out_features[1])

(***************************************************************************)
(* C7: two calls whose inputs agree in channels, height and width end the  *)
(* same way whatever their batch sizes: the same kind of outcome, the same *)
(* assertion at the same index with the same expected and actual           *)
(* (channels, height, width); and every returned map has the batch size of *)
(* the call's input.                                                       *)
(***************************************************************************)
C7_BatchIndependent ==
    /\ TwoCalls /\ Tail(last.x) = Tail(x) =>
          /\ result.kind = last.result.kind
          /\ result.check = last.result.check
          /\ result.idx = last.result.idx
          /\ result.expected = last.result.expected
          /\ result.got = last.result.got
          /\ Len(result.value) = Len(last.result.value)
          /\ \A i \in 1..Len(result.value) :
                Tail(result.value[i]) = Tail(last.result.value[i])
    /\ result.kind = "returned" =>
          \A i \in 1..Len(result.value) : result.value[i][1] = x[1]

C7_Witness ==
    /\ TwoCalls
    /\ Tail(last.x) = Tail(x)
    /\ last.x[1] # x[1]
    /\ result.kind = "returned"
    /\ last.result.kind = "returned"

(***************************************************************************)
(* C8: a shape assertion reports the smallest index whose stage disagrees  *)
(* with the configuration, with that stage's expected and actual           *)
(* (channels, height, width); the length assertion fails only after all    *)
(* six stages have agreed.                                                 *)
(***************************************************************************)
C8_FirstMismatchReported ==
    /\ (result.kind = "AssertionError" /\ result.check = "shape") =>
          /\ result.idx + 1 \in 1..NumStages
          /\ Mismatch(result.idx + 1)
          /\ \A j \in 1..result.idx : ~Mismatch(j)
          /\ result.expected = Configured(result.idx + 1)
          /\ result.got = Tail(out_features[result.idx + 1])
    /\ (result.kind = "AssertionError" /\ result.check = "length") =>
          /\ idx = NumStages
          /\ \A j \in 1..NumStages :
                j <= Len(output_feature_shape) /\ ~Mismatch(j)

C8_Witness ==
    /\ result.kind = "AssertionError"
    /\ result.check = "shape"
    /\ result.idx = 2
    /\ Mismatch(3)
    /\ Mismatch(5)

(***************************************************************************)
(* C9: forward leaves out_channels, output_feature_shape and the list of   *)
(* stages as the constructor set them, and two calls with the same input   *)
(* shape end in the same way.                                              *)
(***************************************************************************)
C9_ForwardKeepsConfig ==
    /\ pc \in {"idle", "layers", "checks"} =>
          /\ out_channels = args.output_channels
          /\ output_feature_shape = args.output_feature_sizes
          /\ layers = Layers(args.output_channels, args.image_channels)
    /\ TwoCalls /\ last.x = x => result = last.result

C9_Witness ==
    /\ TwoCalls
    /\ last.x = x
    /\ result.kind = "AssertionError"
    /\ layers = Layers(args.output_channels, args.image_channels)

(***************************************************************************)
(* C10: the constructor fails, with an IndexError and not an assertion,    *)
(* exactly when output_channels has fewer than six entries; otherwise it   *)
(* stores output_channels and output_feature_sizes as given, whatever      *)
(* their length and values, and builds the stages from the first six       *)
(* channel counts alone; forward checks no index beyond 5.                 *)
(***************************************************************************)
C10_CtorDoesNotValidate ==
    /\ pc # "new" => (pc = "ctor_failed" <=> Len(args.output_channels) < 6)
    /\ pc = "ctor_failed" =>
          /\ result.kind = "IndexError"
          /\ config = <<<<>>, <<>>, <<>>>>
    /\ pc \in {"idle", "layers", "checks"} =>
          /\ out_channels = args.output_channels
          /\ output_feature_shape = args.output_feature_sizes
          /\ layers = Layers(SubSeq(args.output_channels, 1, 6), args.image_channels)
    /\ idx <= 6
    /\ result.kind = "AssertionError" => result.idx <= 5

C10_Witness ==
    /\ Finished
    /\ Len(args.output_channels) > 6
    /\ Len(output_feature_shape) > 6
    /\ Mismatch(6)
    /\ result.kind = "AssertionError"
    /\ result.idx = 5

====
